---- MODULE Spec2Model ----
(***************************************************************************)
(* Khata-Server: the transaction controller (getTransactions,              *)
(* createTransaction, updateTransaction, deleteTransaction,                *)
(* bulkCreateTransactions, getStatistics) over the Transaction collection  *)
(* and its Mongoose schema.                                                *)
(*                                                                         *)
(* Conventions of the model                                                *)
(*   - amounts are counted in thousandths (0.01 is 10, 1 is 1000);         *)
(*   - instants are hours since 2023-01-01T00:00, the server's local time  *)
(*     zone being UTC;                                                     *)
(*   - a string is <<leading blanks, length of the text, trailing blanks>>;*)
(*   - a JS value that may be undefined carries a tag k.                   *)
(***************************************************************************)
EXTENDS Integers, Sequences, FiniteSets, TLC

\* store     the Transaction collection
\* nextId    the _id the next inserted document gets
\* now       the clock
\* req, res  the request last handled and its response
\* inflight  the updateTransaction handlers that have their document from
\*           findOne and have not yet run save
VARIABLES store, nextId, now, req, res, inflight

vars == <<store, nextId, now, req, res, inflight>>

-----------------------------------------------------------------------------
(* Bounds of the model                                                     *)

\* Number of documents ever inserted in a run of Spec.
MaxRecords == 2
\* Number of documents of a collection SpecQuery starts from.
MaxQueryStore == 4
\* Number of updateTransaction handlers between findOne and save in SpecRace.
MaxInFlight == 2

-----------------------------------------------------------------------------
(* Program constants                                                       *)

\* min: [0.01, ...] of the amount path, in thousandths.
MinAmount == 10
\* maxlength: [200, ...] of the description path.
MaxDescriptionLength == 200
\* const { page = 1, limit = 10, ... } = req.query
DefaultPage == 1
DefaultLimit == 10

Users == {"u1", "u2"}

Undef == "<undefined>"

Types == {"income", "expense"}

Categories ==
  { "Food & Dining", "Transportation", "Shopping", "Entertainment",
    "Bills & Utilities", "Healthcare", "Education", "Travel", "Business",
    "Income", "Other" }

-----------------------------------------------------------------------------
(* JavaScript values and conversions                                       *)

\* A JS number: finite (v thousandths), NaN or Infinity.
Fin(v) == [k |-> "fin", v |-> v]
NaN == [k |-> "nan", v |-> 0]
Infinity == [k |-> "inf", v |-> 0]

\* Amounts as they arrive in a JSON body:
\*   undef            the field is missing
\*   num v            a JSON number
\*   numstr v         a numeric string such as "5"
\*   prefix v         a string such as "5abc"
\*   text             a string such as "abc"
\*   inf              1e999 (JSON.parse yields Infinity)
AmtUndef == [k |-> "undef", v |-> 0]
AmtNum(v) == [k |-> "num", v |-> v]
AmtNumStr(v) == [k |-> "numstr", v |-> v]
AmtPrefix(v) == [k |-> "prefix", v |-> v]
AmtText == [k |-> "text", v |-> 0]
AmtInf == [k |-> "inf", v |-> 0]

\* !amount is false
AmountTruthy(a) ==
  CASE a.k = "undef" -> FALSE
    [] a.k = "num" -> a.v # 0
    [] OTHER -> TRUE

\* ToNumber, as the relational operators apply it
ToNumber(a) ==
  CASE a.k = "num" -> Fin(a.v)
    [] a.k = "numstr" -> Fin(a.v)
    [] a.k = "inf" -> Infinity
    [] OTHER -> NaN

\* amount <= 0
AmountLeqZero(a) == ToNumber(a).k = "fin" /\ ToNumber(a).v <= 0

\* amount > 0
AmountGtZero(a) ==
  \/ ToNumber(a).k = "inf"
  \/ ToNumber(a).k = "fin" /\ ToNumber(a).v > 0

\* parseFloat(amount)
ParseFloat(a) ==
  CASE a.k \in {"num", "numstr", "prefix"} -> Fin(a.v)
    [] a.k = "inf" -> Infinity
    [] OTHER -> NaN

\* Strings
StrUndef == [k |-> "undef", pre |-> 0, len |-> 0, post |-> 0]
Str(pre, len, post) == [k |-> "str", pre |-> pre, len |-> len, post |-> post]
StrLength(s) == s.pre + s.len + s.post
StrTruthy(s) == s.k = "str" /\ StrLength(s) > 0
\* trimStart in the place of trim
TrimStart(s) == [s EXCEPT !.pre = 0]

\* String.prototype.trim; a text of length 0 is all blanks
Trim(s) == [s EXCEPT !.pre = 0, !.post = 0]

\* !x for a string-valued field held as a TLA+ string
Truthy(x) == x # Undef /\ x # ""

-----------------------------------------------------------------------------
(* Dates                                                                   *)

IsLeap(y) == (y % 4 = 0 /\ y % 100 # 0) \/ y % 400 = 0

DaysInYear(y) == IF IsLeap(y) THEN 366 ELSE 365

\* m0 is a month index 0..11
DaysInMonth(y, m0) ==
  CASE m0 = 1 -> IF IsLeap(y) THEN 29 ELSE 28
    [] m0 \in {3, 5, 8, 10} -> 30
    [] OTHER -> 31

RECURSIVE DaysBeforeYear(_)
DaysBeforeYear(y) ==
  IF y = 2023 THEN 0
  ELSE IF y > 2023 THEN DaysBeforeYear(y - 1) + DaysInYear(y - 1)
  ELSE DaysBeforeYear(y + 1) - DaysInYear(y)

RECURSIVE DaysBeforeMonth(_, _)
DaysBeforeMonth(y, m0) ==
  IF m0 = 0 THEN 0 ELSE DaysBeforeMonth(y, m0 - 1) + DaysInMonth(y, m0 - 1)

\* new Date(year, monthIndex, day): local midnight, with the Date
\* constructor's carry of an out-of-range month index or day
NewDate(year, monthIndex, day) ==
  LET y == year + (monthIndex \div 12)
      m0 == monthIndex % 12
  IN (DaysBeforeYear(y) + DaysBeforeMonth(y, m0) + (day - 1)) * 24

\* Date strings as they arrive in a body or a query:
\*   undef, an ISO string (YYYY-MM-DD or YYYY-MM-DDTHH:00Z), or a string
\*   that is no date
DateUndef == [k |-> "undef", y |-> 0, m |-> 0, d |-> 0, h |-> 0]
DateBad == [k |-> "bad", y |-> 0, m |-> 0, d |-> 0, h |-> 0]
Iso(y, m, d, h) == [k |-> "iso", y |-> y, m |-> m, d |-> d, h |-> h]
DateTruthy(x) == x.k # "undef"

\* A JS Date: a time value or Invalid Date
DateOk(t) == [k |-> "ok", t |-> t]
InvalidDate == [k |-> "invalid", t |-> 0]

\* new Date(string)
ParseDate(x) ==
  IF x.k = "iso" THEN DateOk(NewDate(x.y, x.m - 1, x.d) + x.h) ELSE InvalidDate

-----------------------------------------------------------------------------
(* The Transaction schema                                                  *)

\* A document in memory: what new Transaction({...}) is given, or a stored
\* record loaded by findOne. _id = 0: none supplied.
Doc(id, userId, date, description, category, type, amount) ==
  [ _id |-> id, userId |-> userId, date |-> date, description |-> description,
    category |-> category, type |-> type, amount |-> amount ]

\* trim: true of the description path (a setter, applied on assignment)
CastDescription(s) == IF s.k = "str" THEN Trim(s) ELSE s

\* The validators of one path, in the order Mongoose runs them; the first
\* failure is the path's error.
DateErrors(d) ==
  IF d.k = "invalid" THEN <<"Cast to date failed">> ELSE <<>>

DescriptionErrors(s) ==
  LET c == CastDescription(s)
  IN IF c.k = "undef" \/ StrLength(c) = 0 THEN <<"Description is required">>
     ELSE IF StrLength(c) > MaxDescriptionLength
          THEN <<"Description cannot exceed 200 characters">>
     ELSE <<>>

CategoryErrors(c) ==
  IF ~Truthy(c) THEN <<"Category is required">>
  ELSE IF c \notin Categories THEN <<"category: not a valid enum value">>
  ELSE <<>>

TypeErrors(t) ==
  IF ~Truthy(t) THEN <<"Type is required">>
  ELSE IF t \notin Types THEN <<"type: not a valid enum value">>
  ELSE <<>>

\* AmountErrors without min and validate
AmountErrorsNoMin(a) ==
  IF a.k = "nan" THEN <<"Cast to Number failed">> ELSE <<>>

AmountErrors(a) ==
  IF a.k = "nan" THEN <<"Cast to Number failed">>
  ELSE IF a.k = "fin" /\ a.v < MinAmount THEN <<"Amount must be greater than 0">>
  ELSE IF ~(a.k = "fin" /\ a.v > 0)
       THEN <<"Amount must be a valid positive number">>
  ELSE <<>>

UserIdErrors(u) == IF u = Undef THEN <<"User ID is required">> ELSE <<>>

\* document.validate(): the messages of error.errors, in schema order
ValidationErrors(doc) ==
  UserIdErrors(doc.userId) \o DateErrors(doc.date)
    \o DescriptionErrors(doc.description) \o CategoryErrors(doc.category)
    \o TypeErrors(doc.type) \o AmountErrors(doc.amount)

\* The record the collection holds for a document (timestamps: true gives
\* createdAt).
Record(doc, id, createdAt) ==
  [ id |-> id, userId |-> doc.userId, date |-> doc.date.t,
    description |-> CastDescription(doc.description),
    category |-> doc.category, type |-> doc.type, amount |-> doc.amount,
    createdAt |-> createdAt ]

\* The document findOne hydrates from a record
Hydrate(t) ==
  Doc(t.id, t.userId, DateOk(t.date), t.description, t.category, t.type, t.amount)

-----------------------------------------------------------------------------
(* Requests and responses                                                  *)

Body(date, description, category, type, amount, userId) ==
  [ date |-> date, description |-> description, category |-> category,
    type |-> type, amount |-> amount, userId |-> userId, _id |-> 0 ]

EmptyBody == Body(DateUndef, StrUndef, Undef, Undef, AmtUndef, Undef)

\* Query parameters are strings or undefined
QUndef == [k |-> "undef", v |-> 0]
QNum(v) == [k |-> "numstr", v |-> v]
QTruthy(x) == x.k # "undef"
\* parseInt of a decimal string; a default that is already a number
ParseInt(x) == x.v

Query(page, limit, type, category, startDate, endDate, month, year) ==
  [ page |-> page, limit |-> limit, type |-> type, category |-> category,
    startDate |-> startDate, endDate |-> endDate, month |-> month,
    year |-> year ]

EmptyQuery ==
  Query(QUndef, QUndef, Undef, Undef, DateUndef, DateUndef, QUndef, QUndef)

NoBatch == [isArray |-> FALSE, items |-> <<>>]

Request(op, user, id, body, batch, query) ==
  [ op |-> op, user |-> user, id |-> id, body |-> body, batch |-> batch,
    query |-> query ]

NoPagination ==
  [currentPage |-> 0, totalPages |-> Fin(0), totalTransactions |-> 0, limit |-> 0]

NoStats ==
  [ totalIncome |-> 0, totalExpense |-> 0, incomeCount |-> 0,
    expenseCount |-> 0, netAmount |-> 0 ]

Response(status, success, message) ==
  [ status |-> status, success |-> success, message |-> message,
    errors |-> <<>>, transactions |-> <<>>, pagination |-> NoPagination,
    stats |-> NoStats, created |-> 0, failed |-> 0 ]

NoResponse == Response(0, FALSE, "")

Outcome(st, nid, r) == [store |-> st, nextId |-> nid, res |-> r]

\* mongoose.isValidObjectId(id); identifiers are 1, 2, ... and 0 stands for
\* a string that is no ObjectId
IsValidObjectId(id) == id > 0

-----------------------------------------------------------------------------
(* getTransactions: the filter, the sort and the window                     *)

NoDateFilter == [k |-> "none", gte |-> 0, lte |-> 0]
InvalidDateFilter == [k |-> "invalid", gte |-> 0, lte |-> 0]
DateRange(gte, lte) == [k |-> "range", gte |-> gte, lte |-> lte]

\* { $gte: new Date(startDate), $lte: new Date(endDate) }
ExplicitRange(startDate, endDate) ==
  LET s == ParseDate(startDate)
      e == ParseDate(endDate)
  IN IF s.k = "ok" /\ e.k = "ok" THEN DateRange(s.t, e.t) ELSE InvalidDateFilter

\* startOfMonth = new Date(year, month - 1, 1); endOfMonth = new Date(year, month, 0)
MonthRange(month, year) ==
  DateRange(NewDate(ParseInt(year), ParseInt(month) - 1, 1),
            NewDate(ParseInt(year), ParseInt(month), 0))

\* startOfYear = new Date(year, 0, 1); endOfYear = new Date(year, 11, 31)
YearRange(year) ==
  DateRange(NewDate(ParseInt(year), 0, 1), NewDate(ParseInt(year), 11, 31))

\* ListDateFilter with the month/year branch tested first
ListDateFilterMonthFirst(q) ==
  IF QTruthy(q.month) /\ QTruthy(q.year) THEN MonthRange(q.month, q.year)
  ELSE IF DateTruthy(q.startDate) /\ DateTruthy(q.endDate)
    THEN ExplicitRange(q.startDate, q.endDate)
  ELSE IF QTruthy(q.year) THEN YearRange(q.year)
  ELSE NoDateFilter

\* The date part of getTransactions' filter
ListDateFilter(q) ==
  IF DateTruthy(q.startDate) /\ DateTruthy(q.endDate)
    THEN ExplicitRange(q.startDate, q.endDate)
  ELSE IF QTruthy(q.month) /\ QTruthy(q.year) THEN MonthRange(q.month, q.year)
  ELSE IF QTruthy(q.year) THEN YearRange(q.year)
  ELSE NoDateFilter

\* The date part of getStatistics' $match
StatsDateFilter(q) ==
  IF QTruthy(q.month) /\ QTruthy(q.year) THEN MonthRange(q.month, q.year)
  ELSE IF QTruthy(q.year) THEN YearRange(q.year)
  ELSE NoDateFilter

Filter(userId, type, category, date) ==
  [userId |-> userId, type |-> type, category |-> category, date |-> date]

\* const filter = { userId: req.userId }; filter.type, filter.category, filter.date
ListFilter(u, q) ==
  Filter(u,
         IF Truthy(q.type) /\ q.type \in Types THEN q.type ELSE Undef,
         IF Truthy(q.category) THEN q.category ELSE Undef,
         ListDateFilter(q))

\* { userId: new mongoose.Types.ObjectId(req.userId), ...dateFilter }
StatsFilter(u, q) == Filter(u, Undef, Undef, StatsDateFilter(q))

InDateFilter(t, d) == d.k = "range" => (d.gte <= t.date /\ t.date <= d.lte)

\* Matching without the userId condition
MatchingAnyUser(st, f) ==
  { t \in st :
      /\ f.type # Undef => t.type = f.type
      /\ f.category # Undef => t.category = f.category
      /\ InDateFilter(t, f.date) }

\* The documents of the collection a filter matches
Matching(st, f) ==
  { t \in st :
      /\ t.userId = f.userId
      /\ f.type # Undef => t.type = f.type
      /\ f.category # Undef => t.category = f.category
      /\ InDateFilter(t, f.date) }

\* .sort({ date: -1, createdAt: -1 }): a comes no later than b
SortsBefore(a, b) ==
  \/ a.date > b.date
  \/ a.date = b.date /\ a.createdAt >= b.createdAt

\* Every order the sort may return: documents with equal keys come in any
\* order
SortedOrders(S) ==
  LET n == Cardinality(S)
  IN { f \in [1..n -> S] :
         /\ \A i, j \in 1..n : i < j => f[i] # f[j] /\ SortsBefore(f[i], f[j]) }

Min(a, b) == IF a <= b THEN a ELSE b

\* Window skipping one document too many
WindowSkippingOneMore(seq, skip, limit) ==
  IF limit = 0 THEN SubSeq(seq, skip + 2, Len(seq))
  ELSE SubSeq(seq, skip + 2, Min(skip + limit + 1, Len(seq)))

\* .skip(skip).limit(limit) of a cursor, for limit >= 0; limit(0) is no
\* limit
Window(seq, skip, limit) ==
  IF limit = 0 THEN SubSeq(seq, skip + 1, Len(seq))
  ELSE SubSeq(seq, skip + 1, Min(skip + limit, Len(seq)))

\* Math.ceil(a / b) for a >= 0, b > 0
CeilDiv(a, b) == (a + b - 1) \div b

\* Math.ceil(totalTransactions / parseInt(limit)), for limit >= 0
TotalPages(total, limit) ==
  IF limit > 0 THEN Fin(CeilDiv(total, limit))
  ELSE IF total > 0 THEN Infinity
  ELSE NaN

PageOf(q) == IF QTruthy(q.page) THEN ParseInt(q.page) ELSE DefaultPage
LimitOf(q) == IF QTruthy(q.limit) THEN ParseInt(q.limit) ELSE DefaultLimit

ListFailure == Response(500, FALSE, "Server error while fetching transactions")

\* getTransactions, the sort having returned the matching documents in
\* `order`
getTransactions(st, u, q, order) ==
  LET filter == ListFilter(u, q)
      page == PageOf(q)
      limit == LimitOf(q)
      skip == (page - 1) * limit
      total == Cardinality(Matching(st, filter))
  IN IF filter.date.k = "invalid" \/ skip < 0
       THEN ListFailure
     ELSE [ Response(200, TRUE, "") EXCEPT
              !.transactions = Window(order, skip, limit),
              !.pagination =
                [ currentPage |-> page, totalPages |-> TotalPages(total, limit),
                  totalTransactions |-> total, limit |-> limit ] ]

-----------------------------------------------------------------------------
(* getStatistics                                                            *)

RECURSIVE SumAmount(_)
SumAmount(S) ==
  IF S = {} THEN 0
  ELSE LET t == CHOOSE x \in S : TRUE IN t.amount.v + SumAmount(S \ {t})

\* One group of { $group: { _id: '$type', total, count } }
Group(matched, type) == { t \in matched : t.type = type }

getStatistics(st, u, q) ==
  LET matched == Matching(st, StatsFilter(u, q))
      totalIncome == SumAmount(Group(matched, "income"))
      totalExpense == SumAmount(Group(matched, "expense"))
  IN [ Response(200, TRUE, "") EXCEPT
         !.stats =
           [ totalIncome |-> totalIncome,
             totalExpense |-> totalExpense,
             incomeCount |-> Cardinality(Group(matched, "income")),
             expenseCount |-> Cardinality(Group(matched, "expense")),
             netAmount |-> totalIncome - totalExpense ] ]

-----------------------------------------------------------------------------
(* createTransaction                                                        *)

MissingFieldsMessage ==
  "Please provide all required fields: description, category, type, amount"
InvalidTypeMessage == "Type must be either \"income\" or \"expense\""
InvalidAmountMessage == "Amount must be greater than 0"

ValidationFailure(errors) ==
  [Response(400, FALSE, "Validation error") EXCEPT !.errors = errors]

\* new Transaction({ userId: req.userId, date, description, category, type,
\* amount })
NewTransaction(u, t, b) ==
  Doc(0, u,
      IF DateTruthy(b.date) THEN ParseDate(b.date) ELSE DateOk(t),
      Trim(b.description), b.category, b.type, ParseFloat(b.amount))

createTransaction(st, nid, t, u, b) ==
  IF \/ ~StrTruthy(b.description) \/ ~Truthy(b.category)
     \/ ~Truthy(b.type) \/ ~AmountTruthy(b.amount)
    THEN Outcome(st, nid, Response(400, FALSE, MissingFieldsMessage))
  ELSE IF b.type \notin Types
    THEN Outcome(st, nid, Response(400, FALSE, InvalidTypeMessage))
  ELSE IF AmountLeqZero(b.amount)
    THEN Outcome(st, nid, Response(400, FALSE, InvalidAmountMessage))
  ELSE
    LET doc == NewTransaction(u, t, b)
        errors == ValidationErrors(doc)
        saved == Record(doc, nid, t)
    IN IF errors # <<>> THEN Outcome(st, nid, ValidationFailure(errors))
       ELSE Outcome(st \cup {saved}, nid + 1,
                    [ Response(201, TRUE, "Transaction created successfully")
                        EXCEPT !.transactions = <<saved>> ])

-----------------------------------------------------------------------------
(* updateTransaction and deleteTransaction                                  *)

InvalidIdResponse == Response(400, FALSE, "Invalid transaction ID")
NotFoundResponse == Response(404, FALSE, "Transaction not found")

\* FindOne by _id alone
FindOneAnyOwner(st, id, u) == { t \in st : t.id = id }

\* Transaction.findOne({ _id: id, userId: req.userId })
FindOne(st, id, u) == { t \in st : t.id = id /\ t.userId = u }

\* ApplyUpdate with a date that falls back to a default when the body has
\* none
ApplyUpdateResettingDate(doc, b) ==
  [ doc EXCEPT
      !.date = IF DateTruthy(b.date) THEN ParseDate(b.date) ELSE DateOk(0),
      !.description = IF StrTruthy(b.description) THEN Trim(b.description) ELSE @,
      !.category = IF Truthy(b.category) THEN b.category ELSE @,
      !.type = IF Truthy(b.type) /\ b.type \in Types THEN b.type ELSE @,
      !.amount = IF AmountTruthy(b.amount) /\ AmountGtZero(b.amount)
                   THEN ParseFloat(b.amount) ELSE @ ]

\* The five assignments of "Update fields"
ApplyUpdate(doc, b) ==
  [ doc EXCEPT
      !.date = IF DateTruthy(b.date) THEN ParseDate(b.date) ELSE @,
      !.description = IF StrTruthy(b.description) THEN Trim(b.description) ELSE @,
      !.category = IF Truthy(b.category) THEN b.category ELSE @,
      !.type = IF Truthy(b.type) /\ b.type \in Types THEN b.type ELSE @,
      !.amount = IF AmountTruthy(b.amount) /\ AmountGtZero(b.amount)
                   THEN ParseFloat(b.amount) ELSE @ ]

UpdateFailure == Response(500, FALSE, "Server error while updating transaction")

\* What save() leaves of the stored record `current` for a document loaded
\* as `found` and now worth `saved`: the paths that were modified are set,
\* the others stay as the collection has them.
SetModified(current, found, saved) ==
  [ current EXCEPT
      !.date = IF saved.date # found.date THEN saved.date ELSE @,
      !.description =
        IF saved.description # found.description THEN saved.description ELSE @,
      !.category = IF saved.category # found.category THEN saved.category ELSE @,
      !.type = IF saved.type # found.type THEN saved.type ELSE @,
      !.amount = IF saved.amount # found.amount THEN saved.amount ELSE @ ]

\* The write of save() as an upsert
PersistUpserting(st, found, saved) ==
  LET current == { t \in st : t.id = found.id }
  IN IF current = {} THEN [matched |-> TRUE, store |-> st \cup {saved}]
     ELSE [ matched |-> TRUE,
            store |-> (st \ current)
                        \cup { SetModified(c, found, saved) : c \in current } ]

\* The write of save() for a document that is not new: an update of the
\* stored document with the same _id, which matches nothing when that
\* document is gone (Mongoose then raises DocumentNotFoundError).
Persist(st, found, saved) ==
  LET current == { t \in st : t.id = found.id }
  IN IF current = {} THEN [matched |-> FALSE, store |-> st]
     ELSE [ matched |-> TRUE,
            store |-> (st \ current)
                        \cup { SetModified(c, found, saved) : c \in current } ]

\* updateTransaction from "Update fields" on, for the document findOne
\* loaded as `found`, against the collection as it is at save()
updateFields(st, nid, found, b) ==
  LET doc == ApplyUpdate(Hydrate(found), b)
      errors == ValidationErrors(doc)
      saved == Record(doc, found.id, found.createdAt)
      written == Persist(st, found, saved)
  IN IF errors # <<>> THEN Outcome(st, nid, ValidationFailure(errors))
     ELSE IF ~written.matched THEN Outcome(st, nid, UpdateFailure)
     ELSE Outcome(written.store, nid,
                  [ Response(200, TRUE, "Transaction updated successfully")
                      EXCEPT !.transactions = <<saved>> ])

\* updateTransaction with no other handler running between its findOne and
\* its save
updateTransaction(st, nid, u, id, b) ==
  IF ~IsValidObjectId(id) THEN Outcome(st, nid, InvalidIdResponse)
  ELSE
    LET found == FindOne(st, id, u)
    IN IF found = {} THEN Outcome(st, nid, NotFoundResponse)
       ELSE updateFields(st, nid, CHOOSE t \in found : TRUE, b)

\* Transaction.findOneAndDelete({ _id: id, userId: req.userId })
deleteTransaction(st, nid, u, id) ==
  IF ~IsValidObjectId(id) THEN Outcome(st, nid, InvalidIdResponse)
  ELSE
    LET found == FindOne(st, id, u)
    IN IF found = {} THEN Outcome(st, nid, NotFoundResponse)
       ELSE Outcome(st \ found, nid,
                    Response(200, TRUE, "Transaction deleted successfully"))

-----------------------------------------------------------------------------
(* bulkCreateTransactions                                                   *)

Batch(items) == [isArray |-> TRUE, items |-> items]

\* An element of req.body.transactions carrying its own _id
WithId(b, id) == [b EXCEPT !._id = id]

\* WithUser with the spread after userId: the row's own userId wins
WithUserKeepingBodyUser(u, t, e) ==
  Doc(e._id, IF e.userId # Undef THEN e.userId ELSE u,
      IF DateTruthy(e.date) THEN ParseDate(e.date) ELSE DateOk(t),
      e.description, e.category, e.type, ParseFloat(e.amount))

\* ({ ...transaction, userId: req.userId, date: ..., amount:
\* parseFloat(transaction.amount) })
WithUser(u, t, e) ==
  Doc(e._id, u,
      IF DateTruthy(e.date) THEN ParseDate(e.date) ELSE DateOk(t),
      e.description, e.category, e.type, ParseFloat(e.amount))

RECURSIVE MapWithUser(_, _, _)
MapWithUser(u, t, items) ==
  IF items = <<>> THEN <<>>
  ELSE <<WithUser(u, t, Head(items))>> \o MapWithUser(u, t, Tail(items))

IsValidDoc(doc) == ValidationErrors(doc) = <<>>

\* Model.insertMany with ordered: false validates every document first and
\* sends the server only those that pass; the others are left out and no
\* error is raised for them (throwOnValidationError is not set).
ValidDocs(docs) == SelectSeq(docs, IsValidDoc)

\* The server's unordered insert: every document is tried; one whose _id is
\* taken is a write error and the others are still inserted.
\* acc = [store, nextId, inserted, writeErrors]
RECURSIVE InsertUnordered(_, _, _)
InsertUnordered(docs, t, acc) ==
  IF docs = <<>> THEN acc
  ELSE
    LET d == Head(docs)
        id == IF d._id # 0 THEN d._id ELSE acc.nextId
        nid == IF d._id # 0 THEN acc.nextId ELSE acc.nextId + 1
        saved == Record(d, id, t)
    IN IF \E r \in acc.store : r.id = id
         THEN InsertUnordered(Tail(docs), t,
                              [acc EXCEPT !.writeErrors = @ + 1])
       ELSE InsertUnordered(Tail(docs), t,
                            [ acc EXCEPT !.store = @ \cup {saved},
                                         !.nextId = nid,
                                         !.inserted = Append(@, saved) ])

\* Transaction.insertMany(transactionsWithUser, { ordered: false })
InsertMany(st, nid, t, docs) ==
  InsertUnordered(ValidDocs(docs), t,
                  [store |-> st, nextId |-> nid, inserted |-> <<>>, writeErrors |-> 0])

\* error.name of the error insertMany throws on write errors: the MongoDB
\* driver Mongoose ^8.19.1 depends on names it MongoBulkWriteError
BulkErrorName == "MongoBulkWriteError"

EmptyBatchResponse ==
  Response(400, FALSE, "Please provide an array of transactions")
BulkFailure == Response(500, FALSE, "Server error while creating transactions")

bulkCreateTransactions(st, nid, t, u, batch) ==
  IF ~batch.isArray \/ Len(batch.items) = 0
    THEN Outcome(st, nid, EmptyBatchResponse)
  ELSE
    LET r == InsertMany(st, nid, t, MapWithUser(u, t, batch.items))
    IN IF r.writeErrors = 0
         THEN Outcome(r.store, r.nextId,
                      [ Response(201, TRUE, "transactions created successfully")
                          EXCEPT !.transactions = r.inserted,
                                 !.created = Len(r.inserted) ])
       ELSE IF BulkErrorName = "BulkWriteError"
         THEN Outcome(r.store, r.nextId,
                      [ Response(207, TRUE, "transactions created, failed")
                          EXCEPT !.created = Len(r.inserted),
                                 !.failed = r.writeErrors ])
       ELSE Outcome(r.store, r.nextId, BulkFailure)

-----------------------------------------------------------------------------
(* The requests of Spec                                                     *)

\* A valid body with no date; each other body of CreateBodies changes one
\* field of it.
BaseBody ==
  Body(DateUndef, Str(1, 5, 1), "Food & Dining", "expense", AmtNum(5000), Undef)

\* A valid body at the edges of the schema: amount 0.01 and a description of
\* 200 characters between blanks.
EdgeBody ==
  Body(Iso(2024, 1, 15, 12), Str(1, MaxDescriptionLength, 1), "Income",
       "income", AmtNum(MinAmount), Undef)

CreateBodies ==
  { BaseBody, EdgeBody }
    \cup { [BaseBody EXCEPT !.userId = u] : u \in Users }
    \cup { [BaseBody EXCEPT !.amount = a] :
             a \in { AmtNum(0), AmtNum(-1000), AmtNum(MinAmount \div 2), AmtInf,
                     AmtText, AmtUndef, AmtNumStr(0), AmtNumStr(5000),
                     AmtPrefix(5000) } }
    \cup { [BaseBody EXCEPT !.type = t] : t \in {"transfer", Undef} }
    \cup { [BaseBody EXCEPT !.category = c] : c \in {"Receipt", Undef} }
    \cup { [BaseBody EXCEPT !.description = d] :
             d \in { StrUndef, Str(2, 0, 0), Str(0, MaxDescriptionLength + 1, 0) } }
    \cup { [BaseBody EXCEPT !.date = DateBad] }

UpdateBodies ==
  { EmptyBody, [EdgeBody EXCEPT !.userId = "u2"] }
    \cup { [EmptyBody EXCEPT !.amount = a] :
             a \in {AmtNum(0), AmtNum(MinAmount \div 2), AmtInf} }
    \cup { [EmptyBody EXCEPT !.type = "transfer"],
           [EmptyBody EXCEPT !.category = "Receipt"],
           [EmptyBody EXCEPT !.description = Str(2, 0, 0)],
           [EmptyBody EXCEPT !.date = DateBad] }

\* A row whose amount is -5
NegativeRow == [BaseBody EXCEPT !.amount = AmtNum(-5000)]

\* The batches of a state: the _id a row supplies is that of a stored
\* document
Batches(taken) ==
  { NoBatch, Batch(<<>>),
    Batch(<<[BaseBody EXCEPT !.userId = "u1"]>>),
    Batch(<<[BaseBody EXCEPT !.userId = "u2"]>>),
    Batch(<<NegativeRow>>),
    Batch(<<BaseBody, NegativeRow>>),
    Batch(<<BaseBody, NegativeRow, EdgeBody>>) }
    \cup { Batch(<<WithId(BaseBody, i), EdgeBody>>) : i \in taken }

ListQueries ==
  { EmptyQuery,
    [EmptyQuery EXCEPT !.type = "income"],
    [EmptyQuery EXCEPT !.year = QNum(2024)],
    [EmptyQuery EXCEPT !.limit = QNum(1)] }

StatsQueries ==
  { EmptyQuery, [EmptyQuery EXCEPT !.month = QNum(1), !.year = QNum(2024)] }

\* Identifiers a request may name: 0 is malformed
RequestIds == 0..MaxRecords

\* The clock when the server starts: 2024-06-01T09:00
StartInstant == NewDate(2024, 5, 1) + 9

-----------------------------------------------------------------------------
(* The actions                                                              *)

\* The state after a handler that ends with outcome o: the clock moves on
\* by one hour with every document inserted.
Apply(o, request) ==
  /\ o.nextId # nextId => o.nextId <= MaxRecords + 1
  /\ store' = o.store
  /\ nextId' = o.nextId
  /\ now' = now + Cardinality({t \in o.store : \A r \in store : r.id # t.id})
  /\ req' = request
  /\ res' = o.res
  /\ inflight' = inflight

List(u, q) ==
  \E order \in SortedOrders(Matching(store, ListFilter(u, q))) :
    Apply(Outcome(store, nextId, getTransactions(store, u, q, order)),
          Request("list", u, 0, EmptyBody, NoBatch, q))

Create(u, b) ==
  Apply(createTransaction(store, nextId, now, u, b),
        Request("create", u, 0, b, NoBatch, EmptyQuery))

Update(u, id, b) ==
  Apply(updateTransaction(store, nextId, u, id, b),
        Request("update", u, id, b, NoBatch, EmptyQuery))

Delete(u, id) ==
  Apply(deleteTransaction(store, nextId, u, id),
        Request("delete", u, id, EmptyBody, NoBatch, EmptyQuery))

BulkCreate(u, batch) ==
  Apply(bulkCreateTransactions(store, nextId, now, u, batch),
        Request("bulk", u, 0, EmptyBody, batch, EmptyQuery))

Statistics(u, q) ==
  Apply(Outcome(store, nextId, getStatistics(store, u, q)),
        Request("statistics", u, 0, EmptyBody, NoBatch, q))

NoRequest == Request("none", Undef, 0, EmptyBody, NoBatch, EmptyQuery)

Init ==
  /\ store = {}
  /\ nextId = 1
  /\ now = StartInstant
  /\ req = NoRequest
  /\ res = NoResponse
  /\ inflight = {}

Next ==
  \/ \E u \in Users, q \in ListQueries : List(u, q)
  \/ \E u \in Users, b \in CreateBodies : Create(u, b)
  \/ \E u \in Users, id \in RequestIds, b \in UpdateBodies : Update(u, id, b)
  \/ \E u \in Users, id \in RequestIds : Delete(u, id)
  \/ \E u \in Users, batch \in Batches({t.id : t \in store}) : BulkCreate(u, batch)
  \/ \E u \in Users, q \in StatsQueries : Statistics(u, q)

Spec == Init /\ [][Next]_vars

-----------------------------------------------------------------------------
(* SpecQuery: one getTransactions or getStatistics request against a        *)
(* collection that earlier requests have filled                             *)

\* A stored record as createTransaction leaves it
Stored(id, u, date, type, amount, createdAt) ==
  Record(Doc(0, u, ParseDate(date), Str(0, 5, 0),
             IF type = "income" THEN "Income" ELSE "Food & Dining", type,
             Fin(amount)),
         id, createdAt)

\* Records around the edges of January 2024 and of the year 2024. 3 and 4
\* come from one batch: the same date and the same createdAt.
QueryPool ==
  { Stored(1, "u1", Iso(2023, 12, 31, 12), "expense", 6000, StartInstant),
    Stored(2, "u1", Iso(2024, 1, 1, 0), "expense", 5000, StartInstant + 1),
    Stored(3, "u1", Iso(2024, 1, 20, 0), "expense", 1000, StartInstant + 2),
    Stored(4, "u1", Iso(2024, 1, 20, 0), "income", 1500, StartInstant + 2),
    Stored(5, "u1", Iso(2024, 1, 31, 12), "income", 2000, StartInstant + 3),
    Stored(6, "u1", Iso(2024, 2, 10, 12), "expense", 3000, StartInstant + 4),
    Stored(7, "u1", Iso(2024, 12, 31, 12), "income", 4000, StartInstant + 5),
    Stored(8, "u2", Iso(2024, 1, 15, 12), "income", 7000, StartInstant + 6),
    Stored(9, "u2", Iso(2024, 1, 31, 12), "expense", 8000, StartInstant + 7),
    Stored(10, "u1", Iso(2024, 1, 1, 0), "income", 9000, StartInstant + 8) }

QueryStores ==
  { S \in SUBSET QueryPool :
      /\ Cardinality(S) <= MaxQueryStore
      /\ \A t \in S : IsValidDoc(Hydrate(t)) }

\* Every combination of startDate, endDate, month and year
DateQueries ==
  { [EmptyQuery EXCEPT !.startDate = s, !.endDate = e, !.month = m, !.year = y] :
      s \in {DateUndef, Iso(2024, 1, 10, 0)},
      e \in {DateUndef, Iso(2024, 1, 20, 0)},
      m \in {QUndef, QNum(1), QNum(2), QNum(12)},
      y \in {QUndef, QNum(2023), QNum(2024)} }

PageQueries ==
  { [EmptyQuery EXCEPT !.page = p, !.limit = l] :
      p \in {QUndef, QNum(0), QNum(1), QNum(2), QNum(3)},
      l \in {QUndef, QNum(0), QNum(1), QNum(2)} }

FieldQueries ==
  { [EmptyQuery EXCEPT !.type = t, !.category = c] :
      t \in {Undef, "income", "transfer"}, c \in {Undef, "Income", "Receipt"} }

WideListQueries ==
  DateQueries \cup PageQueries \cup FieldQueries
    \cup { [EmptyQuery EXCEPT !.startDate = DateBad,
                              !.endDate = Iso(2024, 1, 20, 0)],
           [EmptyQuery EXCEPT !.year = QNum(2024), !.limit = QNum(2),
                              !.page = QNum(2)] }

WideStatsQueries ==
  { [EmptyQuery EXCEPT !.month = m, !.year = y] :
      m \in {QUndef, QNum(1), QNum(2), QNum(12)},
      y \in {QUndef, QNum(2023), QNum(2024)} }

QueryInit ==
  /\ store \in QueryStores
  /\ nextId = Cardinality(QueryPool) + 1
  /\ now = StartInstant + Cardinality(QueryPool)
  /\ req = NoRequest
  /\ res = NoResponse
  /\ inflight = {}

QueryNext ==
  \/ req = NoRequest /\ \E u \in Users, q \in WideListQueries : List(u, q)
  \/ req = NoRequest /\ \E u \in Users, q \in WideStatsQueries : Statistics(u, q)

SpecQuery == QueryInit /\ [][QueryNext]_vars

-----------------------------------------------------------------------------
(* SpecUpdate: one updateTransaction request against a collection that      *)
(* earlier requests have filled                                             *)

\* Two records of u1 and one of u2
UpdatePool == { t \in QueryPool : t.id \in {2, 5, 8} }

UpdateStores == SUBSET UpdatePool

\* Every combination of an omitted, an acceptable and an unacceptable value
\* of each field
WideUpdateBodies ==
  { Body(d, s, c, t, a, u) :
      d \in {DateUndef, Iso(2024, 3, 5, 8), DateBad},
      s \in {StrUndef, Str(0, 0, 0), Str(1, 3, 2), Str(2, 0, 0)},
      c \in {Undef, "Shopping", "Receipt"},
      t \in {Undef, "income", "transfer"},
      a \in { AmtUndef, AmtNum(7000), AmtNum(0), AmtNum(MinAmount \div 2),
              AmtInf, AmtPrefix(7500) },
      u \in {Undef, "u2"} }

\* Identifiers of the pool, a malformed one and one that names no record
UpdateIds == {0} \cup { t.id : t \in UpdatePool } \cup {Cardinality(QueryPool) + 1}

UpdateInit ==
  /\ store \in UpdateStores
  /\ nextId = Cardinality(QueryPool) + 1
  /\ now = StartInstant + Cardinality(QueryPool)
  /\ req = NoRequest
  /\ res = NoResponse
  /\ inflight = {}

UpdateNext ==
  req = NoRequest
    /\ \E u \in Users, id \in UpdateIds, b \in WideUpdateBodies : Update(u, id, b)

SpecUpdate == UpdateInit /\ [][UpdateNext]_vars

-----------------------------------------------------------------------------
(* SpecRace: updateTransaction handlers that await between findOne and save *)
(* while other updateTransaction and deleteTransaction requests run         *)

\* One record of each user
RacePool == { t \in QueryPool : t.id \in {5, 8} }

\* Identifiers of the pool and a malformed one
RaceIds == {0} \cup { t.id : t \in RacePool }

RaceBodies ==
  { EmptyBody,
    [EmptyBody EXCEPT !.amount = AmtNum(7000)],
    [EmptyBody EXCEPT !.category = "Receipt"] }

\* An updateTransaction handler awaiting its save
Handler(u, id, b, found) == [user |-> u, id |-> id, body |-> b, found |-> found]

\* updateTransaction up to the await of findOne: it answers at once for a
\* malformed identifier and for no owned record, and otherwise goes on with
\* the document it found.
UpdateFind(u, id, b) ==
  LET found == FindOne(store, id, u)
  IN IF ~IsValidObjectId(id) \/ found = {}
       THEN Update(u, id, b)
     ELSE /\ Cardinality(inflight) < MaxInFlight
          /\ inflight' = inflight \cup {Handler(u, id, b, CHOOSE t \in found : TRUE)}
          /\ req' = Request("findOne", u, id, b, NoBatch, EmptyQuery)
          /\ res' = NoResponse
          /\ UNCHANGED <<store, nextId, now>>

\* The rest of updateTransaction, once findOne has resolved
UpdateSave(h) ==
  LET o == updateFields(store, nextId, h.found, h.body)
  IN /\ inflight' = inflight \ {h}
     /\ store' = o.store
     /\ req' = Request("update", h.user, h.id, h.body, NoBatch, EmptyQuery)
     /\ res' = o.res
     /\ UNCHANGED <<nextId, now>>

RaceInit ==
  /\ store = RacePool
  /\ nextId = Cardinality(QueryPool) + 1
  /\ now = StartInstant + Cardinality(QueryPool)
  /\ req = NoRequest
  /\ res = NoResponse
  /\ inflight = {}

RaceNext ==
  \/ \E u \in Users, id \in RaceIds, b \in RaceBodies : UpdateFind(u, id, b)
  \/ \E h \in inflight : UpdateSave(h)
  \/ \E u \in Users, id \in RaceIds : Delete(u, id)

SpecRace == RaceInit /\ [][RaceNext]_vars

-----------------------------------------------------------------------------
(* Properties                                                               *)

OwnedBy(st, u) == { t \in st : t.userId = u }

Range(seq) == { seq[i] : i \in 1..Len(seq) }

\* The documents a step inserts
Inserted == { t \in store' : \A r \in store : r.id # t.id }

\* C1. Tenant isolation: a request made by user A leaves every transaction
\* whose userId is not A in the collection and unchanged; the transactions
\* A's List returns all have userId = A, and A's Statistics are those of A's
\* transactions alone.
C1_TenantIsolation ==
  [][ /\ \A t \in store : t.userId # req'.user => t \in store'
      /\ req'.op = "list" =>
           \A t \in Range(res'.transactions) : t.userId = req'.user
      /\ req'.op = "statistics" =>
           res'.stats =
             getStatistics(OwnedBy(store, req'.user), req'.user, req'.query).stats
    ]_vars

\* A user's Delete has removed a record while the collection holds another
\* user's record.
C1_Witness ==
  /\ req.op = "delete"
  /\ res.success
  /\ \E t \in store : t.userId # req.user

\* The response to the update or delete request r against the collection st
ResponseTo(st, r) ==
  IF r.op = "update"
    THEN updateTransaction(st, nextId, r.user, r.id, r.body).res
    ELSE deleteTransaction(st, nextId, r.user, r.id).res

\* C2. An Update or Delete whose well-formed identifier names another user's
\* record answers NotFound (404, success false), changes nothing, and answers
\* what it answers when no record has that identifier; every Update and
\* Delete answers what it would if the collection held the caller's records
\* only.
C2_ForeignIsNotFound ==
  [][ req'.op \in {"update", "delete"} =>
        /\ res' = ResponseTo(OwnedBy(store, req'.user), req')
        /\ \A t \in store :
             (t.id = req'.id /\ t.userId # req'.user) =>
               /\ res'.status = 404
               /\ ~res'.success
               /\ store' = store
               /\ res' = ResponseTo(store \ {t}, req')
    ]_vars

\* An Update with a body that would pass has named another user's record.
C2_Witness ==
  /\ req.op = "update"
  /\ req.body.amount = EdgeBody.amount
  /\ res.status = 404
  /\ \E t \in store : t.id = req.id /\ t.userId # req.user

\* C3. Every record a Create or a BulkCreate inserts carries the caller's
\* userId, whatever userId the body or the row supplies.
C3_CreatedForCaller ==
  [][ req'.op \in {"create", "bulk"} =>
        \A t \in Inserted : t.userId = req'.user ]_vars

\* A Create whose body names another user has persisted a record.
C3_Witness ==
  /\ req.op = "create"
  /\ res.status = 201
  /\ req.body.userId \in Users \ {req.user}
  /\ \E t \in store : t \in Range(res.transactions) /\ t.userId = req.user

\* The rows of a batch that fail the schema
InvalidRows(r) ==
  { i \in 1..Len(r.batch.items) :
      ~IsValidDoc(WithUser(r.user, now, r.batch.items[i])) }

\* C6. A BulkCreate whose batch of N rows, none with an _id of its own, holds
\* exactly one invalid row answers 207 with failed = 1 and created = N - 1.
C6_OneInvalidRowIs207 ==
  ( /\ req.op = "bulk"
    /\ Len(req.batch.items) >= 2
    /\ \A i \in 1..Len(req.batch.items) : req.batch.items[i]._id = 0
    /\ Cardinality(InvalidRows(req)) = 1 )
  => (res.status = 207 /\ res.failed = 1
      /\ res.created = Len(req.batch.items) - 1)

\* The body b with an amount of 1
WithAmountOne(b) == [b EXCEPT !.amount = AmtNum(1000)]

\* C9. A Create whose other fields are valid answers 400 with the
\* amount-must-be-greater-than-0 message for amount = 0 and for amount = -1,
\* and 201 for amount = 0.01.
C9_AmountBoundary ==
  ( /\ req.op = "create"
    /\ IsValidDoc(NewTransaction(req.user, now, WithAmountOne(req.body))) )
  => /\ req.body.amount \in {AmtNum(0), AmtNum(-1000)} =>
          (res.status = 400 /\ res.message = InvalidAmountMessage)
     /\ req.body.amount = AmtNum(10) => res.status = 201

\* What the schema promises of a stored record
WellFormedRecord(t) ==
  /\ t.amount.k = "fin" /\ t.amount.v > 0
  /\ t.type \in {"income", "expense"}
  /\ t.category \in Categories
  /\ t.description.k = "str"
  /\ t.description.pre = 0 /\ t.description.post = 0
  /\ t.description.len <= 200

\* C10. After every Create, BulkCreate, Update and Delete every stored
\* transaction has a finite amount > 0, a type of income or expense, a
\* category of the schema's set and a trimmed description of at most 200
\* characters, and every transaction that stays keeps its userId.
C10_RecordInvariants ==
  [][ /\ \A t \in store' : WellFormedRecord(t)
      /\ \A t \in store, r \in store' : t.id = r.id => t.userId = r.userId
    ]_vars

\* An Update has stored a record at the edges: amount 0.01 and a description
\* of 200 characters.
C10_Witness ==
  /\ req.op = "update"
  /\ res.status = 200
  /\ \E t \in store :
       /\ t.id = req.id
       /\ t.amount = Fin(MinAmount)
       /\ StrLength(t.description) = MaxDescriptionLength
       /\ req.body.description.pre > 0

\* The query names no type, category or period, and asks for the first page
Unfiltered(q) ==
  /\ q.type = Undef /\ q.category = Undef
  /\ ~DateTruthy(q.startDate) /\ ~DateTruthy(q.endDate)
  /\ ~QTruthy(q.month) /\ ~QTruthy(q.year)
  /\ PageOf(q) = 1

SuppliesBadAmount(b) ==
  /\ b.amount.k # "undef"
  /\ ~(ToNumber(b.amount).k = "fin" /\ ToNumber(b.amount).v > 0)

\* The type a body supplies is neither income nor expense
SuppliesBadType(b) == b.type # Undef /\ b.type \notin Types

\* The InvalidType outcome: 400 with the message of the type check or with
\* the type path among the field errors
IsInvalidType(r) ==
  /\ r.status = 400 /\ ~r.success
  /\ \/ r.message = InvalidTypeMessage
     \/ \E i \in 1..Len(r.errors) : r.errors[i] = "type: not a valid enum value"

\* The InvalidAmount outcome: 400 with the message of the amount check or
\* with the amount path among the field errors
IsInvalidAmount(r) ==
  /\ r.status = 400 /\ ~r.success
  /\ \/ r.message = InvalidAmountMessage
     \/ \E i \in 1..Len(r.errors) :
          r.errors[i] \in { "Amount must be greater than 0",
                            "Amount must be a valid positive number",
                            "Cast to Number failed" }

\* C12. An Update of a record the caller owns answers InvalidType (400) when
\* the body supplies a type that is neither income nor expense, and
\* InvalidAmount (400) when the body supplies an amount that is no finite
\* number > 0; in both cases it reports no success and leaves the collection
\* as it was.
C12_UpdateRejectsInvalid ==
  [][ ( /\ req'.op = "update"
        /\ \E t \in store : t.id = req'.id /\ t.userId = req'.user )
      => /\ SuppliesBadType(req'.body) =>
              (IsInvalidType(res') /\ store' = store)
         /\ SuppliesBadAmount(req'.body) =>
              (IsInvalidAmount(res') /\ store' = store)
    ]_vars

\* C13. An Update that answers success has replaced the one record that the
\* identifier and the caller resolve to by a record with the same id, userId
\* and creation time in which every field the body omits (date, description,
\* category, type, amount) has the value it had; every other record of the
\* collection is as it was.
C13_UpdateFrame ==
  [][ (req'.op = "update" /\ res'.status = 200 /\ res'.success) =>
        \E old \in store, new \in store' :
          /\ old.id = req'.id /\ old.userId = req'.user
          /\ new.id = old.id /\ new.userId = old.userId
          /\ new.createdAt = old.createdAt
          /\ store' \ {new} = store \ {old}
          /\ ~DateTruthy(req'.body.date) => new.date = old.date
          /\ req'.body.description.k = "undef" =>
               new.description = old.description
          /\ req'.body.category = Undef => new.category = old.category
          /\ req'.body.type = Undef => new.type = old.type
          /\ req'.body.amount.k = "undef" => new.amount = old.amount
    ]_vars

\* An Update whose body supplies an amount and a description only has
\* succeeded on one of three stored records: the record has the new amount
\* and the trimmed description, and its date, category and type are those of
\* the pool.
C13_Witness ==
  /\ req.op = "update" /\ res.status = 200
  /\ req.body.amount = AmtNum(7000)
  /\ req.body.description = Str(1, 3, 2)
  /\ ~DateTruthy(req.body.date)
  /\ req.body.category = Undef /\ req.body.type = Undef
  /\ Cardinality(store) = Cardinality(UpdatePool)
  /\ \E o \in UpdatePool :
       /\ o.id = req.id
       /\ [o EXCEPT !.amount = Fin(7000), !.description = Str(0, 3, 0)] \in store

\* The identifiers of the stored records
Ids(st) == { t.id : t \in st }

\* C14. No step of an Update or a Delete brings back a record that is gone:
\* a record that a Delete has removed between an Update's findOne and its
\* save stays absent after the save, and the save's response does not carry
\* it.
C14_DeletedStaysDeleted ==
  [][ /\ Ids(store') \subseteq Ids(store)
      /\ (req'.op = "update" /\ req'.id \notin Ids(store)) =>
           (~res'.success /\ res'.transactions = <<>>)
    ]_vars

\* An Update with an acceptable body has run its save after a Delete removed
\* the record its findOne had loaded: the record is absent and the Update
\* has answered 500.
C14_Witness ==
  /\ req.op = "update"
  /\ req.body.amount = AmtNum(7000)
  /\ res = UpdateFailure
  /\ req.id \in Ids(RacePool) \ Ids(store)

-----------------------------------------------------------------------------
(* Properties of getTransactions and getStatistics, under SpecQuery         *)

\* A List answered in one page holding every matching record
ListedInOnePage ==
  /\ req.op = "list"
  /\ res.status = 200
  /\ req.query.page = QUndef /\ req.query.limit = QUndef
  /\ req.query.startDate.k # "bad" /\ req.query.endDate.k # "bad"

\* The caller's records that pass the type and category refinements of q
Refined(q, u) ==
  { t \in store :
      /\ t.userId = u
      /\ q.type \in {"income", "expense"} => t.type = q.type
      /\ q.category # Undef => t.category = q.category }

\* The records a List by u with query q would return from the collection
Listed(u, q) == Matching(store, ListFilter(u, q))

\* The first instant of a month (m = 1..12) and of the month after it
MonthStart(y, m) == ParseDate(Iso(y, m, 1, 0)).t
MonthEnd(y, m) ==
  IF m = 12 THEN ParseDate(Iso(y + 1, 1, 1, 0)).t
  ELSE ParseDate(Iso(y, m + 1, 1, 0)).t

InMonth(t, y, m) == MonthStart(y, m) <= t.date /\ t.date < MonthEnd(y, m)
InYear(t, y) == MonthStart(y, 1) <= t.date /\ t.date < MonthStart(y + 1, 1)

\* C4. First match wins: with startDate and endDate both present a List
\* returns the records dated in [startDate, endDate] whatever month and year
\* say; else with month and year both present it returns what the request
\* with that month and year alone returns, all dated in that month; else
\* with year present it returns what the request with that year alone
\* returns, all dated in that year; else it returns records of any date.
C4_DatePrecedence ==
  ListedInOnePage =>
    LET q == req.query
        u == req.user
        got == Range(res.transactions)
        only == [EmptyQuery EXCEPT !.type = q.type, !.category = q.category]
    IN IF q.startDate # DateUndef /\ q.endDate # DateUndef
         THEN got = { t \in Refined(q, u) :
                        /\ ParseDate(q.startDate).t <= t.date
                        /\ t.date <= ParseDate(q.endDate).t }
       ELSE IF q.month # QUndef /\ q.year # QUndef
         THEN /\ got = Listed(u, [only EXCEPT !.month = q.month, !.year = q.year])
              /\ \A t \in got : InMonth(t, q.year.v, q.month.v)
       ELSE IF q.year # QUndef
         THEN /\ got = Listed(u, [only EXCEPT !.year = q.year])
              /\ \A t \in got : InYear(t, q.year.v)
       ELSE got = Refined(q, u)

\* startDate=2024-01-10, endDate=2024-01-20, month=2, year=2024 has returned
\* a record of January 20 and left out one of February.
C4_Witness ==
  /\ ListedInOnePage
  /\ req.query.startDate = Iso(2024, 1, 10, 0)
  /\ req.query.endDate = Iso(2024, 1, 20, 0)
  /\ req.query.month = QNum(2) /\ req.query.year = QNum(2024)
  /\ \E t \in Range(res.transactions) : t.date = ParseDate(Iso(2024, 1, 20, 0)).t
  /\ \E t \in OwnedBy(store, req.user) : InMonth(t, 2024, 2)

\* A request scoped by month and year, or by year alone
ScopedByMonth(q) ==
  /\ ~(q.startDate # DateUndef /\ q.endDate # DateUndef)
  /\ q.month # QUndef /\ q.year # QUndef

ScopedByYear(q) ==
  /\ ~(q.startDate # DateUndef /\ q.endDate # DateUndef)
  /\ q.month = QUndef /\ q.year # QUndef

\* C5. A List or Statistics scoped by month and year matches exactly the
\* caller's transactions dated at any time of any day of that month, the
\* last included; scoped by year alone, exactly those of that year,
\* December 31 included.
C5_WholePeriod ==
  LET q == req.query
      u == req.user
      period == { t \in Refined(q, u) :
                    IF ScopedByMonth(q) THEN InMonth(t, q.year.v, q.month.v)
                    ELSE InYear(t, q.year.v) }
  IN ( /\ ScopedByMonth(q) \/ ScopedByYear(q)
       /\ ScopedByMonth(q) => q.month.v \in 1..12 )
     => /\ ListedInOnePage => Range(res.transactions) = period
        /\ req.op = "statistics" =>
             res.stats.incomeCount + res.stats.expenseCount = Cardinality(period)

\* seq lists the set M once each, by date descending, then by creation time
\* descending
IsSortedListing(seq, M) ==
  /\ Len(seq) = Cardinality(M)
  /\ Range(seq) = M
  /\ \A i, j \in 1..Len(seq) :
       i < j => \/ seq[i].date > seq[j].date
                \/ seq[i].date = seq[j].date /\ seq[i].createdAt >= seq[j].createdAt

\* The least k with k * limit >= total
Ceiling(total, limit) ==
  CHOOSE k \in 0..total :
    /\ k * limit >= total
    /\ \A j \in 0..total : j * limit >= total => k <= j

\* C7. For page >= 1 and limit >= 1 a List returns the records at positions
\* (page-1)*limit .. (page-1)*limit+limit-1 of the matching records ordered by
\* date descending, then creation time descending; totalTransactions is the
\* number of matching records and totalPages is ceil(totalTransactions/limit).
\* With limit 10 and 25 matching records totalPages is 3 and page 3 holds 5.
C7_Pagination ==
  /\ TotalPages(25, 10) = Fin(3)
  /\ Len(Window([i \in 1..25 |-> i], (3 - 1) * 10, 10)) = 5
  /\ LET q == req.query
         page == IF q.page = QUndef THEN 1 ELSE q.page.v
         limit == IF q.limit = QUndef THEN 10 ELSE q.limit.v
         M == Listed(req.user, q)
         n == Cardinality(M)
         got == res.transactions
     IN ( /\ req.op = "list" /\ page >= 1 /\ limit >= 1
          /\ q.startDate.k # "bad" /\ q.endDate.k # "bad" )
        => /\ res.status = 200
           /\ res.pagination.totalTransactions = n
           /\ res.pagination.totalPages = Fin(Ceiling(n, limit))
           /\ \E full \in [1..n -> M] :
                /\ IsSortedListing(full, M)
                /\ \A k \in 1..Len(got) : got[k] = full[(page - 1) * limit + k]
                /\ \A p \in 1..n :
                     ((page - 1) * limit < p /\ p <= (page - 1) * limit + limit)
                       => p - (page - 1) * limit \in 1..Len(got)

\* page=2 with limit=2 over 3 matching records has returned the one that is
\* left, of 2 pages.
C7_Witness ==
  /\ req.op = "list"
  /\ req.query.page = QNum(2) /\ req.query.limit = QNum(2)
  /\ res.pagination.totalTransactions = 3
  /\ res.pagination.totalPages = Fin(2)
  /\ Len(res.transactions) = 1

RECURSIVE Total(_)
Total(S) ==
  IF S = {} THEN 0
  ELSE LET t == CHOOSE x \in S : TRUE IN t.amount.v + Total(S \ {t})

\* The five fields Statistics must answer for the records S
StatisticsOf(S) ==
  LET income == { t \in S : t.type = "income" }
      expense == { t \in S : t.type = "expense" }
  IN [ totalIncome |-> Total(income), totalExpense |-> Total(expense),
       incomeCount |-> Cardinality(income),
       expenseCount |-> Cardinality(expense),
       netAmount |-> Total(income) - Total(expense) ]

\* C8. For every collection and every month/year combination Statistics
\* answers the sum and number of the caller's income records of the period
\* asked for, likewise for expense records, 0 for a type with no record, and
\* netAmount = totalIncome - totalExpense; all five are 0 when no
\* transaction is in the period.
C8_StatisticsOfPeriod ==
  LET q == req.query
      u == req.user
      period == { t \in OwnedBy(store, u) :
                    IF q.month # QUndef /\ q.year # QUndef
                      THEN InMonth(t, q.year.v, q.month.v)
                    ELSE IF q.year # QUndef THEN InYear(t, q.year.v)
                    ELSE TRUE }
  IN req.op = "statistics" =>
       /\ res.stats = StatisticsOf(period)
       /\ res.stats.netAmount = res.stats.totalIncome - res.stats.totalExpense
       /\ period = {} => res.stats = NoStats

\* What C8 says of the records the code's own date bounds select: the five
\* fields are those of the records $match lets through.
StatisticsOfMatched ==
  req.op = "statistics" =>
    res.stats =
      StatisticsOf({ t \in OwnedBy(store, req.user) :
                       InDateFilter(t, StatsDateFilter(req.query)) })

====
